---- MODULE Spec2Model ----
(***************************************************************************)
(* Model of packages/core/src/template-compiler.ts: the extraction of the  *)
(* glimmer syntax API out of an ember-template-compiler.js bundle          *)
(* (loadGlimmerSyntax), the lazily set up TemplateCompiler and the         *)
(* TemplateCompileTree filter built on it; and of                          *)
(* packages/compat/src/snitch.ts, the funnel that checks the paths of its  *)
(* input tree.                                                             *)
(*                                                                         *)
(* Texts are sequences: file contents are sequences of bytes, JavaScript   *)
(* strings are sequences of code points, generated module text is a        *)
(* sequence of tokens.  The functions of the foreign bundle (preprocess,   *)
(* print, precompile), which the repository only calls, are free           *)
(* constructors: their result records every argument and every piece of    *)
(* compiler state they can read, so two results are equal only when all of *)
(* these are equal.  Digests are injective constructors as well.           *)
(***************************************************************************)
EXTENDS Integers, Sequences, FiniteSets, TLC

VARIABLES
    fs,                \* the file system: path -> bytes of the file, or Missing
    params,            \* per core: the SetupCompilerParams given to the constructor
    userPluginsCount,  \* per core: TemplateCompiler.userPluginsCount
    memo,              \* per core: the value @Memoize() holds for setup()
    attempts,          \* per core: number of times the body of setup() was entered
    loads,             \* number of compiler instances created so far in the process
    ObjectCreate,      \* the global Object.create: "orig" or "patched"
    grabbed,           \* the capture list of the most recent loadGlimmerSyntax
    last,              \* observation of the most recent call
    pinned,            \* observation of an earlier call, kept for comparison
    inputTree,         \* the entries of the input tree of the Snitch
    snitch             \* the Snitch: its fields and the history of its builds

vars == <<fs, params, userPluginsCount, memo, attempts, loads, ObjectCreate,
          grabbed, last, pinned, inputTree, snitch>>

-----------------------------------------------------------------------------
(* Bounds *)

\* setup() may be entered again after it threw; the model stops entering it
\* for one core after this many attempts.
MaxAttempts == 2

\* The number of builds of one Snitch the model follows.
MaxBuilds == 3

-----------------------------------------------------------------------------
(* Small domains the inputs are drawn from *)

Cores == {"c1", "c2"}
Paths == {"p1", "p2"}
Missing == <<-1>>

\* Bundle files, as bytes.  The first byte stands for the program text of the
\* bundle, the remaining bytes for a trailing comment.
FileA    == <<65>>
FileAfe  == <<65, 254>>
FileAff  == <<65, 255>>
FileAe9  == <<65, 195, 169>>
FileB    == <<66>>
FileN    == <<78>>
FileT    == <<84>>
FileP    == <<80>>
FileQ    == <<81>>
FileX    == <<88>>

AllFiles == {FileA, FileAfe, FileAff, FileAe9, FileB, FileN, FileT, FileP,
             FileQ, FileX}
ValidFiles == {FileA, FileAfe, FileAff, FileB}

\* Template contents, as code points: "H" and "H" preceded by a byte-order mark.
ContentsH    == <<72>>
ContentsBomH == <<65279, 72>>
Contents == {ContentsH, ContentsBomH}

\* Module names and relative paths, as single characters.
NameM   == <<"m">>
NameHbs == <<"f", ".", "h", "b", "s">>
NameHandlebars ==
    <<"f", ".", "h", "a", "n", "d", "l", "e", "b", "a", "r", "s">>
NameJs  == <<"f", ".", "j", "s">>
NameBare == <<"h", "b", "s">>
ModuleNames == {NameM, NameHbs}
TreePaths == {NameHbs, NameHandlebars, NameJs, NameBare}

Undefined == <<"undefined">>
PluginLists == {Undefined, <<"u1">>, <<"u1", "u2">>}

\* EmberENV values.  A table is a function from keys to values; `other` holds
\* the top-level keys besides FEATURES.
EmptyTable == [k \in {} |-> ""]
NoEnv == [given |-> FALSE, hasFEATURES |-> FALSE,
          FEATURES |-> EmptyTable, other |-> EmptyTable]
EnvFull == [given |-> TRUE, hasFEATURES |-> TRUE,
            FEATURES |-> ("f1" :> "on"), other |-> ("e1" :> "x")]
EnvPlain == [given |-> TRUE, hasFEATURES |-> FALSE,
             FEATURES |-> EmptyTable, other |-> ("e0" :> "y")]
EnvOnlyFeatures == [given |-> TRUE, hasFEATURES |-> TRUE,
                    FEATURES |-> ("f0" :> "off"), other |-> EmptyTable]
EmberENVs == {NoEnv, EnvFull, EnvPlain, EnvOnlyFeatures}

-----------------------------------------------------------------------------
(* Digests and decoding *)

\* createHash('md5').update(text).digest('hex'), injective.
Md5OfText(text) == [md5text |-> text]

\* createHash('md5').update(stringify({syntax: k})).digest('hex'), injective.
Md5OfJson(syntaxKey) == [md5json |-> [syntax |-> syntaxKey]]

\* readFileSync(path, 'utf8') decodes the bytes as UTF-8: an ASCII byte is its
\* code point, a two-byte sequence (lead C2..DF, continuation 80..BF) is one
\* code point, and every byte that is part of no valid sequence becomes
\* U+FFFD.  Bytes E0..F4 (leads of longer sequences) are outside the domain.
RECURSIVE Utf8Decode(_)
Utf8Decode(bytes) ==
    IF bytes = <<>> THEN <<>>
    ELSE LET b == Head(bytes) IN
         IF b < 128 THEN <<b>> \o Utf8Decode(Tail(bytes))
         ELSE IF /\ b >= 194 /\ b <= 223 /\ Len(bytes) >= 2
                 /\ bytes[2] >= 128 /\ bytes[2] <= 191
         THEN <<(b - 192) * 64 + (bytes[2] - 128)>>
                  \o Utf8Decode(Tail(Tail(bytes)))
         ELSE <<65533>> \o Utf8Decode(Tail(bytes))

\* strip-bom: drops one leading U+FEFF.
stripBom(text) ==
    IF Len(text) >= 1 /\ text[1] = 65279 THEN Tail(text) ELSE text

-----------------------------------------------------------------------------
(* The bundle *)

\* Objects the bundle constructs through Object.create.  gs tells whether the
\* object has a '@glimmer/syntax' entry and whether that has print; co tells
\* whether it has 'ember-template-compiler/lib/system/compile-options'.
ObjPlain     == [gs |-> "absent", co |-> FALSE]
ObjSeen      == [gs |-> "print", co |-> TRUE]
ObjNoPrint   == [gs |-> "noprint", co |-> TRUE]
ObjNoOptions == [gs |-> "print", co |-> FALSE]

\* What executing a bundle does, as a function of its program text: whether
\* it parses, the objects it constructs in order, whether it then throws,
\* what module.exports holds, and which built-in AST plugins its
\* compile-options module appends.
BundleProgram(source) ==
    LET head == IF source = <<>> THEN 0 ELSE source[1] IN
    CASE head = 65 ->
           [parses |-> TRUE, creates |-> <<ObjPlain, ObjSeen>>,
            throws |-> FALSE, precompile |-> TRUE, ember |-> TRUE,
            builtins |-> <<"b1", "b2", "b3">>]
      [] head = 66 ->
           [parses |-> TRUE, creates |-> <<ObjSeen>>,
            throws |-> FALSE, precompile |-> TRUE, ember |-> TRUE,
            builtins |-> <<"b1">>]
      [] head = 78 ->
           [parses |-> TRUE, creates |-> <<ObjPlain, ObjNoPrint>>,
            throws |-> FALSE, precompile |-> TRUE, ember |-> TRUE,
            builtins |-> <<>>]
      [] head = 84 ->
           [parses |-> TRUE, creates |-> <<ObjPlain>>,
            throws |-> TRUE, precompile |-> FALSE, ember |-> FALSE,
            builtins |-> <<>>]
      [] head = 80 ->
           [parses |-> TRUE, creates |-> <<ObjSeen>>,
            throws |-> FALSE, precompile |-> FALSE, ember |-> FALSE,
            builtins |-> <<"b1">>]
      [] head = 81 ->
           [parses |-> TRUE, creates |-> <<ObjNoOptions>>,
            throws |-> FALSE, precompile |-> TRUE, ember |-> TRUE,
            builtins |-> <<>>]
      [] OTHER ->
           [parses |-> FALSE, creates |-> <<>>,
            throws |-> TRUE, precompile |-> FALSE, ember |-> FALSE,
            builtins |-> <<>>]

\* The tables a fresh compiler instance starts with.
DefaultFEATURES == "f0" :> "dflt"
DefaultENV == "e0" :> "dflt"

-----------------------------------------------------------------------------
(* Object.create and its interception *)

\* A call of Object.create while `create` is installed: the patched function
\* pushes the result on the capture list, the original does not.
CallCreate(create, list, obj, origin) ==
    IF create = "patched"
    THEN Append(list, [obj |-> obj, origin |-> origin])
    ELSE list

\* The bundle runs: every object it constructs goes through Object.create.
RECURSIVE RunCreates(_, _, _)
RunCreates(create, list, objs) ==
    IF objs = <<>> THEN list
    ELSE RunCreates(create, CallCreate(create, list, Head(objs), "bundle"),
                    Tail(objs))

\* The finally block: Object.create = orig, whether or not the body threw.
FinallyLeaked(create, orig, threw) == IF threw THEN create ELSE orig
Finally(create, orig, threw) == orig

\* The first captured object with obj['@glimmer/syntax'].print, or 0.
RECURSIVE FindSyntax(_, _)
FindSyntax(list, i) ==
    IF i > Len(list) THEN 0
    ELSE IF list[i].obj.gs = "print" THEN i
    ELSE FindSyntax(list, i + 1)

NoError == [kind |-> "none", path |-> "", text |-> ""]
NoSyntax == [id |-> 0]

\* The error of the last line of loadGlimmerSyntax.
ErrorNoSyntaxNoPath(templateCompilerPath) ==
    [kind |-> "Error", path |-> "",
     text |-> "unable to find @glimmer/syntax methods"]
ErrorNoSyntax(templateCompilerPath) ==
    [kind |-> "Error", path |-> templateCompilerPath,
     text |-> "unable to find @glimmer/syntax methods in "]

\* The end of loadGlimmerSyntax, after the finally block: the bundle did not
\* parse or threw, or the capture list is scanned.  source: the text read,
\* prog: what the bundle does, list: the capture list, after: Object.create
\* as the finally block left it, hit: the index of the first captured object
\* with the signature.
loadGlimmerSyntaxScan(path, n, source, prog, list, after, hit) ==
    IF ~prog.parses
    THEN [threw |-> TRUE,
          error |-> [kind |-> "SyntaxError", path |-> "", text |-> ""],
          syntax |-> NoSyntax, create |-> after, grabbed |-> list,
          executed |-> FALSE]
    ELSE IF prog.throws
    THEN [threw |-> TRUE,
          error |-> [kind |-> "BundleError", path |-> "", text |-> ""],
          syntax |-> NoSyntax, create |-> after, grabbed |-> list,
          executed |-> TRUE]
    ELSE IF hit = 0
    THEN [threw |-> TRUE,
          error |-> ErrorNoSyntax(path),
          syntax |-> NoSyntax, create |-> after, grabbed |-> list,
          executed |-> TRUE]
    ELSE IF ~list[hit].obj.co
    THEN [threw |-> TRUE,
          error |-> [kind |-> "TypeError", path |-> "",
                     text |-> "cannot read property default of undefined"],
          syntax |-> NoSyntax, create |-> after, grabbed |-> list,
          executed |-> TRUE]
    ELSE [threw |-> FALSE, error |-> NoError,
          syntax |-> [id |-> n + 1,
                      source |-> source,
                      hasPrecompile |-> prog.precompile,
                      hasEmber |-> prog.ember,
                      userPlugins |-> <<>>,
                      builtins |-> prog.builtins,
                      FEATURES |-> DefaultFEATURES,
                      ENV |-> DefaultENV,
                      cacheKey |-> Md5OfText(source)],
          create |-> after, grabbed |-> list, executed |-> TRUE]

\* The try block and the finally block: the patch is installed, the bundle
\* runs and fills the capture list, Object.create is restored.
loadGlimmerSyntaxCaptured(path, n, source, prog, list, after) ==
    loadGlimmerSyntaxScan(path, n, source, prog, list, after,
                          FindSyntax(list, 1))

loadGlimmerSyntaxRun(templateCompilerPath, orig, n, source, prog) ==
    loadGlimmerSyntaxCaptured(templateCompilerPath, n, source, prog,
        IF prog.parses THEN RunCreates("patched", <<>>, prog.creates)
        ELSE <<>>,
        Finally("patched", orig, prog.throws))

loadGlimmerSyntaxRead(templateCompilerPath, orig, n, source) ==
    loadGlimmerSyntaxRun(templateCompilerPath, orig, n, source,
                         BundleProgram(source))

\* loadGlimmerSyntax(templateCompilerPath), called while the global
\* Object.create is `create` and the process has created `n` instances.
\* Every call executes the text of the bundle anew (new Function), which
\* gives a compiler instance with its own module state.
loadGlimmerSyntaxRequireCached(templateCompilerPath, create, n) ==
    IF \E d \in Cores :
          memo[d].ready /\ params[d].compilerPath = templateCompilerPath
    THEN [threw |-> FALSE, error |-> NoError,
          syntax |-> memo[CHOOSE d \in Cores :
                             /\ memo[d].ready
                             /\ params[d].compilerPath = templateCompilerPath
                         ].syntax,
          create |-> create, grabbed |-> <<>>, executed |-> FALSE]
    ELSE loadGlimmerSyntaxRead(templateCompilerPath, create, n,
                               Utf8Decode(fs[templateCompilerPath]))
loadGlimmerSyntax(templateCompilerPath, create, n) ==
    IF fs[templateCompilerPath] = Missing
    THEN [threw |-> TRUE,
          error |-> [kind |-> "ENOENT", path |-> templateCompilerPath,
                     text |-> "no such file or directory"],
          syntax |-> NoSyntax, create |-> create, grabbed |-> <<>>,
          executed |-> FALSE]
    ELSE loadGlimmerSyntaxRead(templateCompilerPath, create, n,
                               Utf8Decode(fs[templateCompilerPath]))

-----------------------------------------------------------------------------
(* The entry points of the extracted compiler *)

\* syntax.registerPlugin('ast', plugin): the compile-options module keeps the
\* user plugins in registration order.
registerPlugin(syntax, plugin) ==
    [syntax EXCEPT !.userPlugins = Append(@, plugin)]

\* syntax.defaultOptions({contents, moduleName}): the registered user plugins
\* come first in plugins.ast, the built-in plugins after them.
defaultOptions(syntax, contents, moduleName) ==
    [contents |-> contents, moduleName |-> moduleName,
     ast |-> syntax.userPlugins \o syntax.builtins]

\* syntax.preprocess(html, opts): runs the plugins of opts over the parsed
\* template, reading the feature and environment tables.
preprocess(syntax, html, opts) ==
    [html |-> html, contents |-> opts.contents,
     moduleName |-> opts.moduleName, plugins |-> opts.ast,
     FEATURES |-> syntax.FEATURES, ENV |-> syntax.ENV,
     source |-> syntax.source]

\* syntax.print(ast)
print(ast) == [printed |-> ast]

\* syntax.precompile(text, {contents, moduleName}): the full compile of the
\* bundle, which runs the registered user plugins and then the built-in ones.
foreignPrecompile(syntax, text, contents, moduleName) ==
    [wire |-> text, contents |-> contents, moduleName |-> moduleName,
     plugins |-> syntax.userPlugins \o syntax.builtins,
     FEATURES |-> syntax.FEATURES, ENV |-> syntax.ENV,
     source |-> syntax.source]

-----------------------------------------------------------------------------
(* The resolver *)

ResolverPlugin == "resolverPlugin"

\* resolver.dependenciesOf(moduleName)
dependenciesOf(moduleName) ==
    CASE moduleName = NameM ->
           <<[runtimeName |-> "ra", path |-> "./a"],
             [runtimeName |-> "rb", path |-> "./b"]>>
      [] moduleName = NameHbs ->
           <<[runtimeName |-> "rc", path |-> "./c"]>>
      [] moduleName = NameHandlebars ->
           <<[runtimeName |-> "rb", path |-> "./b"],
             [runtimeName |-> "ra", path |-> "./a"],
             [runtimeName |-> "rc", path |-> "./c"]>>
      [] OTHER -> <<>>

-----------------------------------------------------------------------------
(* registerPlugins and initializeEmberENV *)

\* The loop of registerPlugins over plugins.ast, from index i on.
RECURSIVE RegisterFrom(_, _, _, _)
RegisterFrom(syntax, ast, i, count) ==
    IF i > Len(ast) THEN [syntax |-> syntax, count |-> count]
    ELSE RegisterFrom(registerPlugin(syntax, ast[i]), ast, i + 1, count + 1)

registerPlugins(syntax, plugins) ==
    IF plugins = Undefined THEN [syntax |-> syntax, count |-> 0]
    ELSE RegisterFrom(syntax, plugins, 1, 0)

\* Object.keys(o).forEach(prop => table[prop] = o[prop])
CopyInto(table, o) ==
    [k \in DOMAIN table \cup DOMAIN o |->
        IF k \in DOMAIN o THEN o[k] ELSE table[k]]

\* Object.keys(EmberENV): FEATURES, when the configuration has it, and
\* the other top-level keys.
EnvProps(EmberENV) ==
    DOMAIN EmberENV.other
        \cup (IF EmberENV.hasFEATURES THEN {"FEATURES"} ELSE {})

\* EmberENV[prop]
EnvValue(EmberENV, prop) ==
    IF prop = "FEATURES" THEN "[object Object]" ELSE EmberENV.other[prop]

\* The second forEach: every top-level key except FEATURES is written into
\* the environment table.
CopyEnvAll(table, EmberENV) ==
    [k \in DOMAIN table \cup EnvProps(EmberENV) |->
        IF k \in EnvProps(EmberENV) THEN EnvValue(EmberENV, k)
        ELSE table[k]]
CopyEnv(table, EmberENV) ==
    [k \in DOMAIN table \cup (EnvProps(EmberENV) \ {"FEATURES"}) |->
        IF k \in EnvProps(EmberENV) \ {"FEATURES"}
        THEN EnvValue(EmberENV, k)
        ELSE table[k]]

\* initializeEmberENV(syntax, EmberENV).  A bundle whose exports have no
\* _Ember makes the first table write throw.
initializeEmberENV(syntax, EmberENV) ==
    IF ~EmberENV.given
    THEN [threw |-> FALSE, syntax |-> syntax, wrote |-> FALSE]
    ELSE
    LET writesF == EmberENV.hasFEATURES /\ DOMAIN EmberENV.FEATURES # {}
        writesE == EnvProps(EmberENV) \ {"FEATURES"} # {}
    IN
    IF (writesF \/ writesE) /\ ~syntax.hasEmber
    THEN [threw |-> TRUE, syntax |-> syntax, wrote |-> FALSE]
    ELSE
    LET s1 == IF EmberENV.hasFEATURES
              THEN [syntax EXCEPT
                       !.FEATURES = CopyInto(@, EmberENV.FEATURES)]
              ELSE syntax
        s2 == [s1 EXCEPT !.ENV = CopyEnv(@, EmberENV)]
    IN [threw |-> FALSE, syntax |-> s2, wrote |-> writesF \/ writesE]

-----------------------------------------------------------------------------
(* TemplateCompiler.setup and its memoization *)

NoKey == [none |-> TRUE]
NotReady == [ready |-> FALSE, syntax |-> NoSyntax, cacheKey |-> NoKey]

\* The cacheKey setup() derives: a digest of {syntax: syntax.cacheKey}; the
\* resolver and the bundle path are not part of it.
setupCacheKeyWithPath(syntax, p) ==
    Md5OfJson([key |-> syntax.cacheKey, path |-> p.compilerPath])
setupCacheKey(syntax, p) == Md5OfJson(syntax.cacheKey)

\* What a run of setup() leaves behind: whether it threw and with what, the
\* compiler and cacheKey it returned, userPluginsCount, and what the load did.
SetupRun(ld, threw, error, syntax, cacheKey, upc, registered, initCalls) ==
    [ran |-> TRUE, threw |-> threw, error |-> error,
     syntax |-> syntax, cacheKey |-> cacheKey, upc |-> upc,
     create |-> ld.create, grabbed |-> ld.grabbed, executed |-> ld.executed,
     registered |-> registered, initCalls |-> initCalls]

\* Lines 154-159: initializeEmberENV has run with result env.
setupInitializedLate(p, ld, s2, upc2, env) ==
    SetupRun(ld, FALSE, NoError, s2, setupCacheKey(s2, p), upc2,
             s2.userPlugins, 0)
setupInitialized(p, ld, s2, upc2, env) ==
    IF env.threw
    THEN SetupRun(ld, TRUE,
                  [kind |-> "TypeError", path |-> "",
                   text |-> "cannot read property of undefined"],
                  NoSyntax, NoKey, upc2, s2.userPlugins, 1)
    ELSE SetupRun(ld, FALSE, NoError, env.syntax,
                  setupCacheKey(env.syntax, p), upc2, s2.userPlugins, 1)

\* Lines 150-154: the host plugins are registered (rp) and counted (upc1).
setupRegistered(rthrows, p, ld, rp, upc1) ==
    IF p.resolver /\ rthrows
    THEN SetupRun(ld, TRUE,
                  [kind |-> "ResolverError", path |-> "", text |-> ""],
                  NoSyntax, NoKey, upc1, rp.syntax.userPlugins, 0)
    ELSE IF p.resolver
    THEN setupInitialized(p, ld, registerPlugin(rp.syntax, ResolverPlugin),
             upc1 + 1,
             initializeEmberENV(registerPlugin(rp.syntax, ResolverPlugin),
                                p.EmberENV))
    ELSE setupInitialized(p, ld, rp.syntax, upc1,
                          initializeEmberENV(rp.syntax, p.EmberENV))

\* Line 149: this.userPluginsCount += registerPlugins(syntax, plugins).
setupCounted(c, rthrows, p, ld, rp) ==
    setupRegistered(rthrows, p, ld, rp, userPluginsCount[c] + rp.count)

\* Lines 148-149: loadGlimmerSyntax has run with result ld.
setupLoaded(c, rthrows, p, ld) ==
    IF ld.threw
    THEN SetupRun(ld, TRUE, ld.error, NoSyntax, NoKey, userPluginsCount[c],
                  <<>>, 0)
    ELSE setupCounted(c, rthrows, p, ld,
                      registerPlugins(ld.syntax, p.plugins))

\* The body of setup() for core c.  rthrows: resolver.astTransformer throws.
setup(c, rthrows) ==
    setupLoaded(c, rthrows, params[c],
                loadGlimmerSyntax(params[c].compilerPath, ObjectCreate,
                                  loads))

\* @Memoize(): the value of a call that returned is kept on the instance; a
\* call that threw leaves nothing behind.
NeverMemoized(c) == FALSE
Memoized(c) == memo[c].ready

\* this.setup(), as the getters `syntax` and `cacheKey` call it.
memoizedSetup(c, rthrows) ==
    IF Memoized(c)
    THEN [ran |-> FALSE, threw |-> FALSE, error |-> NoError,
          syntax |-> memo[c].syntax, cacheKey |-> memo[c].cacheKey,
          upc |-> userPluginsCount[c],
          create |-> ObjectCreate, grabbed |-> grabbed,
          executed |-> FALSE, registered |-> <<>>, initCalls |-> 0]
    ELSE setup(c, rthrows)

\* A call that does not reach setup().
NoSetup(c) ==
    [ran |-> FALSE, threw |-> FALSE, error |-> NoError,
     syntax |-> NoSyntax, cacheKey |-> NoKey,
     upc |-> userPluginsCount[c],
     create |-> ObjectCreate, grabbed |-> grabbed,
     executed |-> FALSE, registered |-> <<>>, initCalls |-> 0]

-----------------------------------------------------------------------------
(* The operations of TemplateCompiler, given the compiler `syntax` *)

Lit(s) == [lit |-> s]
Payload(x) == [payload |-> x]
Digits == <<"0", "1", "2", "3">>
\* `${counter}`
NumberToString(n) == Digits[n + 1]

\* The dependencies precompile returns, and the number of times it asked
\* the resolver for them.
precompileDependenciesDropped(c, moduleName) ==
    [dependencies |-> <<>>, depCalls |-> 0]
precompileDependencies(c, moduleName) ==
    IF params[c].resolver
    THEN [dependencies |-> dependenciesOf(moduleName), depCalls |-> 1]
    ELSE [dependencies |-> <<>>, depCalls |-> 0]

precompile(c, syntax, moduleName, contents) ==
    IF ~syntax.hasPrecompile
    THEN [threw |-> TRUE, compiled |-> [none |-> TRUE],
          dependencies |-> <<>>, depCalls |-> 0]
    ELSE [threw |-> FALSE,
          compiled |-> foreignPrecompile(syntax, stripBom(contents),
                                         contents, moduleName),
          dependencies |-> precompileDependencies(c, moduleName).dependencies,
          depCalls |-> precompileDependencies(c, moduleName).depCalls]

\* The loop of compile over the dependencies: two lines per dependency, the
\* counter incremented after the second.
RECURSIVE CompileLines(_, _, _)
CompileLinesStuck(deps, counter, lines) ==
    IF deps = <<>> THEN lines
    ELSE CompileLines(Tail(deps), counter,
           lines \o
           << <<Lit("import a"), Lit(NumberToString(counter)),
                Lit(" from \""), Lit(Head(deps).path), Lit("\";")>>,
              <<Lit("window.define('"), Lit(Head(deps).runtimeName),
                Lit("', function(){ return a"),
                Lit(NumberToString(counter)), Lit("});")>> >>)
CompileLines(deps, counter, lines) ==
    IF deps = <<>> THEN lines
    ELSE CompileLines(Tail(deps), counter + 1,
           lines \o
           << <<Lit("import a"), Lit(NumberToString(counter)),
                Lit(" from \""), Lit(Head(deps).path), Lit("\";")>>,
              <<Lit("window.define('"), Lit(Head(deps).runtimeName),
                Lit("', function(){ return a"),
                Lit(NumberToString(counter)), Lit("});")>> >>)

\* lines.join("\n")
RECURSIVE Join(_)
Join(lines) ==
    IF lines = <<>> THEN <<>>
    ELSE IF Len(lines) = 1 THEN lines[1]
    ELSE lines[1] \o <<Lit("\n")>> \o Join(Tail(lines))

\* compile, after its call of precompile returned pre.
compileText(pre) ==
    IF pre.threw
    THEN [threw |-> TRUE, text |-> <<>>, depCalls |-> 0]
    ELSE [threw |-> FALSE,
          text |-> Join(CompileLines(pre.dependencies, 0, <<>>) \o
                    << <<Lit("export default Ember.HTMLBars.template("),
                         Payload(pre.compiled), Lit(");")>> >>),
          depCalls |-> pre.depCalls]

compile(c, syntax, moduleName, contents) ==
    compileText(precompile(c, syntax, moduleName, contents))

\* opts.plugins.ast.slice(0, n)
Slice0(list, n) ==
    SubSeq(list, 1, IF n < Len(list) THEN n ELSE Len(list))

\* applyTransforms, after syntax.defaultOptions returned opts.
applyTransformsWith(syntax, upc, contents, opts) ==
    [defaultAst |-> opts.ast, handedAst |-> Slice0(opts.ast, upc),
     text |-> print(preprocess(syntax, contents,
                               [opts EXCEPT !.ast = Slice0(@, upc)]))]

applyTransforms(syntax, upc, moduleName, contents) ==
    applyTransformsWith(syntax, upc, contents,
                        defaultOptions(syntax, contents, moduleName))

parse(syntax, moduleName, contents) ==
    preprocess(syntax, contents,
               [contents |-> contents, moduleName |-> moduleName,
                ast |-> <<>>])

-----------------------------------------------------------------------------
(* TemplateCompileTree *)

ExtHbs == <<"h", "b", "s">>
ExtHandlebars == <<"h", "a", "n", "d", "l", "e", "b", "a", "r", "s">>
ExtJs == <<"j", "s">>
Stages == {1, 3}

\* The options the constructor hands to Filter.
TreeOptionsKeepExtension(stage) ==
    [extensions |-> <<ExtHbs, ExtHandlebars>>, targetExtension |-> Undefined]
TreeOptions(stage) ==
    [extensions |-> <<ExtHbs, ExtHandlebars>>,
     targetExtension |-> IF stage = 3 THEN ExtJs ELSE Undefined]

\* relativePath.slice(-ext.length - 1) === '.' + ext
HasExtension(relativePath, ext) ==
    LET n == Len(relativePath)
        k == Len(ext) + 1
        from == IF n - k + 1 < 1 THEN 1 ELSE n - k + 1
    IN SubSeq(relativePath, from, n) = <<".">> \o ext

\* Filter.getDestFilePath: the output path of a file the filter processes,
\* or NoPath for a file it leaves alone.
NoPath == <<>>
RECURSIVE DestFrom(_, _, _)
DestFrom(options, relativePath, i) ==
    IF i > Len(options.extensions) THEN NoPath
    ELSE LET ext == options.extensions[i] IN
         IF HasExtension(relativePath, ext)
         THEN IF options.targetExtension # Undefined
              THEN SubSeq(relativePath, 1, Len(relativePath) - Len(ext))
                       \o options.targetExtension
              ELSE relativePath
         ELSE DestFrom(options, relativePath, i + 1)
getDestFilePath(options, relativePath) == DestFrom(options, relativePath, 1)

\* Filter.cacheKeyProcessString(source, relativePath): a digest of both.
superCacheKeyProcessString(source, relativePath) ==
    [md5pair |-> <<source, relativePath>>]

\* TemplateCompileTree.cacheKeyProcessString
cacheKeyProcessStringNoStage(stage, coreKey, source, relativePath) ==
    <<[hex |-> coreKey],
      [hex |-> superCacheKeyProcessString(source, relativePath)]>>
cacheKeyProcessString(stage, coreKey, source, relativePath) ==
    <<Lit(NumberToString(stage)), Lit("-"), [hex |-> coreKey],
      [hex |-> superCacheKeyProcessString(source, relativePath)]>>

\* The result of processString at stage 3, compile having returned r.
processStringCompiled(r) ==
    [threw |-> r.threw, output |-> [kind |-> "text", tokens |-> r.text],
     depCalls |-> r.depCalls]

\* TemplateCompileTree.processString
processString(c, stage, syntax, upc, source, relativePath) ==
    IF stage = 1
    THEN [threw |-> FALSE,
          output |-> [kind |-> "printed",
                      text |-> applyTransforms(syntax, upc, relativePath,
                                               source).text],
          depCalls |-> 0]
    ELSE processStringCompiled(compile(c, syntax, relativePath, source))

-----------------------------------------------------------------------------
(* Observations *)

NoOutput == [kind |-> "none"]
NoObs ==
    [core |-> "", op |-> "none", moduleName |-> <<>>, contents |-> <<>>,
     stage |-> 0, status |-> "none", error |-> NoError, output |-> NoOutput,
     readyBefore |-> FALSE, setupRan |-> FALSE, loadCalls |-> 0,
     executions |-> 0, registered |-> <<>>, initCalls |-> 0,
     depCalls |-> 0, upc |-> 0, defaultAst |-> <<>>, handedAst |-> <<>>,
     destPath |-> <<>>, key |-> <<>>, syntaxId |-> 0]

\* What a call on core c observed of the setup g it went through.
ObsOf(c, op, moduleName, contents, g) ==
    [NoObs EXCEPT !.core = c, !.op = op, !.moduleName = moduleName,
                  !.contents = contents,
                  !.status = IF g.threw THEN "error" ELSE "ok",
                  !.error = g.error,
                  !.readyBefore = memo[c].ready,
                  !.setupRan = g.ran,
                  !.loadCalls = IF g.ran THEN 1 ELSE 0,
                  !.executions = IF g.ran /\ g.executed THEN 1 ELSE 0,
                  !.registered = g.registered,
                  !.initCalls = g.initCalls,
                  !.upc = g.upc,
                  !.syntaxId = g.syntax.id]

\* What is kept of a call for later comparison.
Kept(obs) ==
    [NoObs EXCEPT !.core = obs.core, !.op = obs.op,
                  !.moduleName = obs.moduleName, !.contents = obs.contents,
                  !.stage = obs.stage, !.status = obs.status,
                  !.output = obs.output, !.key = obs.key,
                  !.setupRan = obs.setupRan]

TypeErrorObs(obs) ==
    [obs EXCEPT !.status = "error",
                !.error = [kind |-> "TypeError", path |-> "",
                           text |-> "precompile is not a function"]]

\* The state after a call on core c that went through setup g and observed obs.
Commit(c, g, obs, pin) ==
    /\ userPluginsCount' = [userPluginsCount EXCEPT ![c] = g.upc]
    /\ memo' = [memo EXCEPT ![c] =
                   IF g.ran /\ ~g.threw
                   THEN [ready |-> TRUE, syntax |-> g.syntax,
                         cacheKey |-> g.cacheKey]
                   ELSE @]
    /\ attempts' = [attempts EXCEPT ![c] = IF g.ran THEN @ + 1 ELSE @]
    /\ loads' = IF g.ran /\ g.executed THEN loads + 1 ELSE loads
    /\ ObjectCreate' = g.create
    /\ grabbed' = g.grabbed
    /\ last' = obs
    /\ pinned' = IF pin THEN Kept(obs) ELSE pinned
    /\ UNCHANGED <<fs, params, inputTree, snitch>>

\* resolver.astTransformer is called, and so may throw, only when the body of
\* setup() runs on a core with a resolver.
ThrowChoices(c) ==
    IF params[c].resolver /\ ~Memoized(c) THEN BOOLEAN ELSE {FALSE}

CanCall(c) ==
    /\ params[c].constructed
    /\ Memoized(c) \/ attempts[c] < MaxAttempts

-----------------------------------------------------------------------------
(* Actions: one per public operation *)

\* What each operation adds to the observation obs of its call, once the
\* compiler is there (g) and the body of the operation has returned r.
CacheKeyObs(g, obs) ==
    IF g.threw THEN obs
    ELSE [obs EXCEPT !.output = [kind |-> "key", key |-> g.cacheKey]]

PrecompileObs(g, obs, r) ==
    IF g.threw THEN obs
    ELSE IF r.threw THEN TypeErrorObs(obs)
    ELSE [obs EXCEPT !.output = [kind |-> "precompiled",
                                 compiled |-> r.compiled,
                                 dependencies |-> r.dependencies],
                     !.depCalls = r.depCalls]

CompileObs(g, obs, r) ==
    IF g.threw THEN obs
    ELSE IF r.threw THEN TypeErrorObs(obs)
    ELSE [obs EXCEPT !.output = [kind |-> "text", tokens |-> r.text],
                     !.depCalls = r.depCalls]

ApplyTransformsObs(g, obs, r) ==
    IF g.threw THEN obs
    ELSE [obs EXCEPT !.output = [kind |-> "printed", text |-> r.text],
                     !.defaultAst = r.defaultAst,
                     !.handedAst = r.handedAst]

ParseObs(g, obs, ast) ==
    IF g.threw THEN obs
    ELSE [obs EXCEPT !.output = [kind |-> "ast", ast |-> ast]]

BuildObs(g, obs, dest, r, key) ==
    IF dest = NoPath THEN [obs EXCEPT !.status = "skipped"]
    ELSE IF g.threw THEN obs
    ELSE IF r.threw THEN TypeErrorObs(obs)
    ELSE [obs EXCEPT !.output = r.output, !.depCalls = r.depCalls,
                     !.key = key]

\* templateCompiler.cacheKey
CallCacheKey(c, pin) ==
    /\ CanCall(c)
    /\ \E rthrows \in ThrowChoices(c) :
         \E g \in {memoizedSetup(c, rthrows)} :
            Commit(c, g,
                   CacheKeyObs(g, ObsOf(c, "cacheKey", <<>>, <<>>, g)), pin)

\* templateCompiler.precompile(moduleName, contents)
CallPrecompile(c, moduleName, contents, pin) ==
    /\ CanCall(c)
    /\ \E rthrows \in ThrowChoices(c) :
         \E g \in {memoizedSetup(c, rthrows)} :
            Commit(c, g,
                   PrecompileObs(g,
                       ObsOf(c, "precompile", moduleName, contents, g),
                       precompile(c, g.syntax, moduleName, contents)),
                   pin)

\* templateCompiler.compile(moduleName, contents)
CallCompile(c, moduleName, contents, pin) ==
    /\ CanCall(c)
    /\ \E rthrows \in ThrowChoices(c) :
         \E g \in {memoizedSetup(c, rthrows)} :
            Commit(c, g,
                   CompileObs(g,
                       ObsOf(c, "compile", moduleName, contents, g),
                       compile(c, g.syntax, moduleName, contents)),
                   pin)

\* templateCompiler.applyTransforms(moduleName, contents)
CallApplyTransforms(c, moduleName, contents, pin) ==
    /\ CanCall(c)
    /\ \E rthrows \in ThrowChoices(c) :
         \E g \in {memoizedSetup(c, rthrows)} :
            Commit(c, g,
                   ApplyTransformsObs(g,
                       ObsOf(c, "applyTransforms", moduleName, contents, g),
                       applyTransforms(g.syntax, g.upc, moduleName,
                                       contents)),
                   pin)

\* templateCompiler.parse(moduleName, contents)
CallParse(c, moduleName, contents, pin) ==
    /\ CanCall(c)
    /\ \E rthrows \in ThrowChoices(c) :
         \E g \in {memoizedSetup(c, rthrows)} :
            Commit(c, g,
                   ParseObs(g, ObsOf(c, "parse", moduleName, contents, g),
                            parse(g.syntax, moduleName, contents)),
                   pin)

\* A TemplateCompileTree of core c and the given stage meets one file of its
\* input tree: a file the filter does not process is left alone; for the
\* others the cache key and the output are computed.
BuildFile(c, stage, relativePath, source, pin) ==
    /\ CanCall(c)
    /\ \E rthrows \in ThrowChoices(c) :
         \E dest \in {getDestFilePath(TreeOptions(stage), relativePath)} :
         \E g \in {IF dest = NoPath THEN NoSetup(c)
                   ELSE memoizedSetup(c, rthrows)} :
            Commit(c, g,
                   BuildObs(g,
                       [ObsOf(c, "build", relativePath, source, g)
                           EXCEPT !.stage = stage, !.destPath = dest],
                       dest,
                       processString(c, stage, g.syntax, g.upc, source,
                                     relativePath),
                       cacheKeyProcessString(stage, g.cacheKey, source,
                                             relativePath)),
                   pin)

\* Code elsewhere in the process constructs an object with Object.create.
CreateObject ==
    /\ last.op # "Object.create"
    /\ grabbed' = CallCreate(ObjectCreate, grabbed, ObjPlain, "outside")
    /\ last' = [NoObs EXCEPT !.op = "Object.create", !.status = "ok"]
    /\ UNCHANGED <<fs, params, userPluginsCount, memo, attempts, loads,
                   ObjectCreate, pinned, inputTree, snitch>>

-----------------------------------------------------------------------------
(* Snitch *)

\* The entries an input tree may have, in the order walkSync lists them: the
\* files a/x, b/x and z and the directory b/.
TreeEntries ==
    << [path |-> <<"a", "/", "x">>, directory |-> FALSE],
       [path |-> <<"b", "/">>, directory |-> TRUE],
       [path |-> <<"b", "/", "x">>, directory |-> FALSE],
       [path |-> <<"z">>, directory |-> FALSE] >>

\* An input tree is the set of the indices of its entries; a file under b/
\* is there only with the directory.
Trees == {t \in SUBSET (1..Len(TreeEntries)) : 3 \in t => 2 \in t}

\* The regular expressions given as allowedPaths: /^a\// and /x$/.
RegexStartA == [anchor |-> "start", text |-> <<"a", "/">>]
RegexEndX == [anchor |-> "end", text |-> <<"x">>]
Regexes == {RegexStartA, RegexEndX}

\* allowedPaths.test(filename)
Test(re, filename) ==
    /\ Len(filename) >= Len(re.text)
    /\ IF re.anchor = "start"
       THEN SubSeq(filename, 1, Len(re.text)) = re.text
       ELSE SubSeq(filename, Len(filename) - Len(re.text) + 1,
                   Len(filename)) = re.text

\* walkSync(this.inputPaths[0], { directories: false }): the paths of the
\* files of the tree, in order, from entry i on.
RECURSIVE WalkFrom(_, _)
WalkFrom(tree, i) ==
    IF i > Len(TreeEntries) THEN <<>>
    ELSE IF i \in tree /\ ~TreeEntries[i].directory
    THEN <<TreeEntries[i].path>> \o WalkFrom(tree, i + 1)
    ELSE WalkFrom(tree, i + 1)
walkSync(tree) == WalkFrom(tree, 1)

\* The callback of map: a filename that fails allowedPaths is pushed on
\* badPaths.
RECURSIVE BadPathsFrom(_, _, _)
BadPathsFrom(re, filenames, badPaths) ==
    IF filenames = <<>> THEN badPaths
    ELSE BadPathsFrom(re, Tail(filenames),
                      IF ~Test(re, Head(filenames))
                      THEN Append(badPaths, Head(filenames))
                      ELSE badPaths)

\* A Snitch after its constructor: mustCheck is true.  builds counts the
\* calls of build(), scanned lists the builds that walked the input tree,
\* reports the calls of foundBadPaths, funnelBuilds counts the runs of
\* Funnel.build, built is the input tree of the most recent build.
NoSnitch ==
    [allowedPaths |-> RegexStartA, mustCheck |-> TRUE, builds |-> 0,
     scanned |-> <<>>, reports |-> <<>>, funnelBuilds |-> 0, built |-> {}]
NewSnitch(allowedPaths) == [NoSnitch EXCEPT !.allowedPaths = allowedPaths]

\* return super.build()
superBuild(s) == [s EXCEPT !.funnelBuilds = @ + 1]

\* The body of `if (this.mustCheck)` once badPaths is filled: the callback
\* is called when the list is not empty, and when it throws the build ends
\* there; otherwise mustCheck becomes false.
buildReport(s, tree, badPaths, cbThrows) ==
    IF badPaths = <<>> THEN [s EXCEPT !.mustCheck = FALSE]
    ELSE [s EXCEPT !.reports = Append(@, [build |-> s.builds, tree |-> tree,
                                          badPaths |-> badPaths,
                                          threw |-> cbThrows]),
                   !.mustCheck = IF cbThrows THEN @ ELSE FALSE]

\* What build() does after the check: a callback that threw has ended it.
buildEnd(s, threw) == IF threw THEN s ELSE superBuild(s)

buildScanned(s, tree, badPaths, cbThrows) ==
    buildEnd(buildReport(s, tree, badPaths, cbThrows),
             cbThrows /\ badPaths # <<>>)

\* build() while mustCheck is true: the tree is walked and checked.
buildChecked(s, tree, cbThrows) ==
    buildScanned([s EXCEPT !.scanned = Append(@, s.builds)], tree,
                 BadPathsFrom(s.allowedPaths, walkSync(tree), <<>>),
                 cbThrows)

\* Snitch.build(), entered for the n-th time with the given input tree.
buildAlwaysChecks(s, tree, cbThrows) == buildChecked(s, tree, cbThrows)
buildEntered(s, tree, cbThrows) ==
    IF s.mustCheck THEN buildChecked(s, tree, cbThrows) ELSE superBuild(s)

build(s, tree, cbThrows) ==
    buildEntered([s EXCEPT !.builds = @ + 1, !.built = tree], tree, cbThrows)

\* foundBadPaths is called, and so may throw, only in a build that checks a
\* tree with a failing path.
CallbackChoices(s, tree) ==
    IF s.mustCheck /\ BadPathsFrom(s.allowedPaths, walkSync(tree), <<>>) # <<>>
    THEN BOOLEAN ELSE {FALSE}

\* The build system builds the Snitch.
SnitchBuild ==
    /\ snitch.builds < MaxBuilds
    /\ \E cbThrows \in CallbackChoices(snitch, inputTree) :
          snitch' = build(snitch, inputTree, cbThrows)
    /\ UNCHANGED <<fs, params, userPluginsCount, memo, attempts, loads,
                   ObjectCreate, grabbed, last, pinned, inputTree>>

\* The input tree changes between two builds.
ChangeTree ==
    /\ \E t \in Trees : t # inputTree /\ inputTree' = t
    /\ UNCHANGED <<fs, params, userPluginsCount, memo, attempts, loads,
                   ObjectCreate, grabbed, last, pinned, snitch>>

-----------------------------------------------------------------------------
(* Initial states and the specification *)

NotConstructed ==
    [constructed |-> FALSE, compilerPath |-> "p1", resolver |-> FALSE,
     EmberENV |-> NoEnv, plugins |-> Undefined]

\* One core, any bundle file.
InitOne ==
    /\ \E f \in AllFiles \cup {Missing} :
         fs = [p \in Paths |-> IF p = "p1" THEN f ELSE Missing]
    /\ \E r \in BOOLEAN, e \in EmberENVs, pl \in PluginLists :
         params = [c \in Cores |->
                     IF c = "c1"
                     THEN [constructed |-> TRUE, compilerPath |-> "p1",
                           resolver |-> r, EmberENV |-> e, plugins |-> pl]
                     ELSE NotConstructed]

\* Two cores over bundles that load.
InitTwo ==
    /\ \E f \in {FileA, FileAfe}, g \in ValidFiles :
         fs = [p \in Paths |-> IF p = "p1" THEN f ELSE g]
    /\ \E q \in Paths, pl \in {Undefined, <<"u1">>} :
         params = [c \in Cores |->
                     IF c = "c1"
                     THEN [constructed |-> TRUE, compilerPath |-> "p1",
                           resolver |-> FALSE, EmberENV |-> NoEnv,
                           plugins |-> Undefined]
                     ELSE [constructed |-> TRUE, compilerPath |-> q,
                           resolver |-> FALSE, EmberENV |-> EnvFull,
                           plugins |-> pl]]

\* Cores whose calls are compared pairwise: one core with or without a
\* resolver, or two cores over bundles with the same or different program
\* text and the same or different plugins.
InitPair ==
    \/ /\ fs = [p \in Paths |-> IF p = "p1" THEN FileA ELSE Missing]
       /\ \E r \in BOOLEAN :
            params = [c \in Cores |->
                        IF c = "c1"
                        THEN [constructed |-> TRUE, compilerPath |-> "p1",
                              resolver |-> r, EmberENV |-> EnvFull,
                              plugins |-> <<"u1">>]
                        ELSE NotConstructed]
    \/ /\ \E f \in {FileA, FileB} :
            fs = [p \in Paths |-> IF p = "p1" THEN FileA ELSE f]
       /\ \E pl \in {Undefined, <<"u1">>} :
            params = [c \in Cores |->
                        [constructed |-> TRUE,
                         compilerPath |-> IF c = "c1" THEN "p1" ELSE "p2",
                         resolver |-> FALSE, EmberENV |-> NoEnv,
                         plugins |-> IF c = "c1" THEN <<"u1">> ELSE pl]]

Fresh ==
    /\ userPluginsCount = [c \in Cores |-> 0]
    /\ memo = [c \in Cores |-> NotReady]
    /\ attempts = [c \in Cores |-> 0]
    /\ loads = 0
    /\ ObjectCreate = "orig"
    /\ grabbed = <<>>
    /\ last = NoObs
    /\ pinned = NoObs

\* No Snitch is built in the process.
SnitchUnused == inputTree = {} /\ snitch = NoSnitch

\* A Snitch over some input tree, in a process without compilation cores.
InitSnitchOnly ==
    /\ fs = [p \in Paths |-> Missing]
    /\ params = [c \in Cores |-> NotConstructed]
    /\ inputTree \in Trees
    /\ \E re \in Regexes : snitch = NewSnitch(re)

Init == InitOne /\ Fresh /\ SnitchUnused
InitTwoCores == InitTwo /\ Fresh /\ SnitchUnused
InitPairs == InitPair /\ Fresh /\ SnitchUnused
InitSnitch == InitSnitchOnly /\ Fresh

\* One step of the process.  pins: whether a call may be kept for comparison;
\* names, paths: the module names and file paths calls are made with.
Step(pins, names, paths) ==
    \/ \E c \in Cores, pin \in pins : CallCacheKey(c, pin)
    \/ \E c \in Cores, m \in names, s \in Contents, pin \in pins :
          CallPrecompile(c, m, s, pin)
    \/ \E c \in Cores, m \in names, s \in Contents, pin \in pins :
          CallCompile(c, m, s, pin)
    \/ \E c \in Cores, m \in names, s \in Contents, pin \in pins :
          CallApplyTransforms(c, m, s, pin)
    \/ \E c \in Cores, m \in names, s \in Contents, pin \in pins :
          CallParse(c, m, s, pin)
    \/ \E c \in Cores, st \in Stages, f \in paths, s \in Contents,
          pin \in pins :
          BuildFile(c, st, f, s, pin)
    \/ CreateObject

Next == Step({FALSE}, ModuleNames, TreePaths)
NextTwoCores == Step({FALSE}, {NameHbs}, {NameHbs, NameJs})
NextPairs == Step(BOOLEAN, {NameHbs}, {NameHbs})

Spec == Init /\ [][Next]_vars
SpecTwoCores == InitTwoCores /\ [][NextTwoCores]_vars
SpecPairs == InitPairs /\ [][NextPairs]_vars

NextSnitch == SnitchBuild \/ ChangeTree
SpecSnitch == InitSnitch /\ [][NextSnitch]_vars

-----------------------------------------------------------------------------
(* Properties *)

\* The core and the configuration of the most recent call.
LastParams == params[last.core]
IsCall == last.core \in Cores

\* C1 as stated: the body of setup() is entered exactly once per core, at the
\* first call that needs it, and never again.
SetupEnteredAtMostOnce == \A c \in Cores : attempts[c] <= 1

\* C1, amended: a call that needs the compiler runs setup exactly when no
\* setup of its core has returned yet; once a setup has returned, every later
\* call keeps the same extracted compiler, cacheKey and user-plugin count
\* and does no further extraction, registration or initialization.
SetupOnceReady ==
    [][\A c \in Cores :
         /\ (last'.core = c /\ last'.status # "skipped")
              => last'.loadCalls = (IF memo[c].ready THEN 0 ELSE 1)
         /\ memo[c].ready
              => /\ memo'[c] = memo[c]
                 /\ userPluginsCount'[c] = userPluginsCount[c]
                 /\ attempts'[c] = attempts[c]
                 /\ last'.core = c
                      => /\ last'.executions = 0
                         /\ last'.registered = <<>>
                         /\ last'.initCalls = 0
                         /\ last'.status # "skipped"
                              => last'.syntaxId = memo[c].syntax.id]_vars

\* A later call on a core whose only setup ran in an earlier call.
ReusedSetup ==
    /\ IsCall /\ last.readyBefore /\ last.status = "ok"
    /\ last.loadCalls = 0 /\ attempts[last.core] = 1
    /\ LastParams.plugins # Undefined

\* C2: between calls Object.create is the original primitive, however the
\* last loadGlimmerSyntax ended, and the capture list holds only objects the
\* bundle constructed while it ran.
InterceptionRemoved ==
    /\ ObjectCreate = "orig"
    /\ \A i \in 1..Len(grabbed) : grabbed[i].origin = "bundle"

\* The bundle threw while it ran, and an object was constructed elsewhere
\* afterwards.
CreatedAfterBundleThrew ==
    /\ fs["p1"] = FileT /\ attempts["c1"] >= 1
    /\ Len(grabbed) = 1
    /\ last.op = "Object.create"

\* The bundle of the most recent call ran to its end and the capture list
\* has no object with the syntax-printer signature.
NoSignatureCaptured ==
    /\ IsCall /\ last.setupRan
    /\ fs[LastParams.compilerPath] # Missing
    /\ LET prog == BundleProgram(Utf8Decode(fs[LastParams.compilerPath]))
       IN prog.parses /\ ~prog.throws
    /\ \A i \in 1..Len(grabbed) : grabbed[i].obj.gs # "print"

\* C3: when no captured object has the syntax-printer signature, the call
\* that triggered setup fails with an Error naming the bundle path; no
\* compiler is produced or kept, nothing is registered or initialized and
\* the bundle is not loaded a second time.
NoSignatureIsFatal ==
    NoSignatureCaptured =>
        /\ last.status = "error"
        /\ last.error.kind = "Error"
        /\ last.error.path = LastParams.compilerPath
        /\ last.output = NoOutput
        /\ last.syntaxId = 0
        /\ ~memo[last.core].ready
        /\ last.loadCalls = 1
        /\ last.registered = <<>> /\ last.initCalls = 0

\* applyTransforms triggered a setup whose bundle has no such object.
NoSignatureSeen ==
    NoSignatureCaptured /\ last.op = "applyTransforms" /\ Len(grabbed) = 2

BothReady == memo["c1"].ready /\ memo["c2"].ready
BytesOf(c) == fs[params[c].compilerPath]

\* C4 as stated: the cacheKeys of two cores are equal exactly when the bytes
\* of their bundle files are equal.
CacheKeyOfBytes ==
    BothReady =>
        ((BytesOf("c1") = BytesOf("c2"))
            <=> (memo["c1"].cacheKey = memo["c2"].cacheKey))

\* C4, amended: the cacheKeys of two cores are equal exactly when the texts
\* their bundle files decode to as UTF-8 are equal, whatever the paths.
CacheKeyOfDecodedText ==
    BothReady =>
        ((Utf8Decode(BytesOf("c1")) = Utf8Decode(BytesOf("c2")))
            <=> (memo["c1"].cacheKey = memo["c2"].cacheKey))

\* Two cores set up from different paths whose files have the same bytes.
SameBytesTwoPaths ==
    /\ BothReady
    /\ params["c1"].compilerPath # params["c2"].compilerPath
    /\ BytesOf("c1") = BytesOf("c2")
    /\ memo["c1"].syntax.id # memo["c2"].syntax.id

\* Two per-file computations, one kept and the most recent one.
TwoBuilds ==
    /\ pinned.op = "build" /\ pinned.status = "ok"
    /\ last.op = "build" /\ last.status = "ok"

\* C5: two per-file computations with the same cache key have the same
\* output.
SameKeySameOutput ==
    (TwoBuilds /\ pinned.key = last.key) => pinned.output = last.output

\* Two cores over bundles with the same bytes and different plugins computed
\* the same file at the same stage.
SameFileTwoCores ==
    /\ TwoBuilds /\ pinned.core # last.core
    /\ BytesOf("c1") = BytesOf("c2")
    /\ params["c1"].plugins # params["c2"].plugins
    /\ pinned.stage = last.stage /\ pinned.moduleName = last.moduleName
    /\ pinned.contents = last.contents

\* The text a compile call returned, cut at the "\n" tokens.
RECURSIVE SplitLines(_, _, _)
SplitLines(tokens, line, lines) ==
    IF tokens = <<>> THEN Append(lines, line)
    ELSE IF Head(tokens) = Lit("\n")
    THEN SplitLines(Tail(tokens), <<>>, Append(lines, line))
    ELSE SplitLines(Tail(tokens), Append(line, Head(tokens)), lines)

\* The most recent call ran compile and returned.
CompileReturned ==
    /\ IsCall /\ last.status = "ok"
    /\ last.op = "compile" \/ (last.op = "build" /\ last.stage = 3)

\* C6: compile emits, for the k-th dependency (k from 0, in the order of the
\* dependency sequence), the import line of a<k> followed by the registration
\* line of its runtime name, and then the one export line; nothing else.
DependencyLinesInOrder ==
    CompileReturned =>
        LET deps == IF LastParams.resolver
                    THEN dependenciesOf(last.moduleName) ELSE <<>>
            n == Len(deps)
            lines == SplitLines(last.output.tokens, <<>>, <<>>)
        IN /\ Len(lines) = 2 * n + 1
           /\ \A k \in 0..(n - 1) :
                /\ lines[2 * k + 1] =
                     <<Lit("import a"), Lit(Digits[k + 1]), Lit(" from \""),
                       Lit(deps[k + 1].path), Lit("\";")>>
                /\ lines[2 * k + 2] =
                     <<Lit("window.define('"), Lit(deps[k + 1].runtimeName),
                       Lit("', function(){ return a"), Lit(Digits[k + 1]),
                       Lit("});")>>
           /\ lines[2 * n + 1] =
                <<Lit("export default Ember.HTMLBars.template("),
                  Payload(foreignPrecompile(memo[last.core].syntax,
                                            stripBom(last.contents),
                                            last.contents, last.moduleName)),
                  Lit(");")>>

\* compile returned the text of a module with three dependencies.
ThreeDependencies ==
    /\ CompileReturned /\ LastParams.resolver
    /\ Len(dependenciesOf(last.moduleName)) = 3

\* The number of user-installed plugins of core c: the host-supplied AST
\* plugins, plus one when a resolver is configured.
UserPlugins(c) ==
    (IF params[c].plugins = Undefined THEN 0 ELSE Len(params[c].plugins))
        + (IF params[c].resolver THEN 1 ELSE 0)

\* C7: applyTransforms hands the preprocessor exactly the first N entries of
\* the default options' AST-plugin list, N the number of user-installed
\* plugins, and so none of the built-in plugins.
UserPrefixHanded ==
    (IsCall /\ last.op = "applyTransforms" /\ last.status = "ok") =>
        /\ last.handedAst = SubSeq(last.defaultAst, 1, UserPlugins(last.core))
        /\ \A i \in 1..Len(last.handedAst) :
             \A j \in 1..Len(memo[last.core].syntax.builtins) :
                last.handedAst[i] # memo[last.core].syntax.builtins[j]

\* C8: precompile returns no dependencies and asks nobody when no resolver is
\* configured, and otherwise returns resolver.dependenciesOf(moduleName) as
\* it is, having asked once.
DependenciesFromResolver ==
    (IsCall /\ last.op = "precompile" /\ last.status = "ok") =>
        IF LastParams.resolver
        THEN /\ last.output.dependencies = dependenciesOf(last.moduleName)
             /\ last.depCalls = 1
        ELSE /\ last.output.dependencies = <<>>
             /\ last.depCalls = 0

\* precompile returned the two dependencies the resolver names.
TwoDependenciesReturned ==
    /\ IsCall /\ last.op = "precompile" /\ last.status = "ok"
    /\ LastParams.resolver /\ Len(last.output.dependencies) = 2

IsTemplatePath(path) ==
    HasExtension(path, ExtHbs) \/ HasExtension(path, ExtHandlebars)

\* C9: the tree processes exactly the files with extension hbs or
\* handlebars; at stage 1 the output is that of applyTransforms under the
\* same path, at stage 3 that of compile under the path with the extension
\* replaced by js.
StageExtensionRule ==
    (IsCall /\ last.op = "build") =>
        /\ (last.status = "skipped") <=> ~IsTemplatePath(last.moduleName)
        /\ ~IsTemplatePath(last.moduleName) =>
             last.destPath = NoPath /\ last.output = NoOutput
        /\ (IsTemplatePath(last.moduleName) /\ last.stage = 1) =>
             /\ last.destPath = last.moduleName
             /\ last.status = "ok" => last.output.kind = "printed"
        /\ (IsTemplatePath(last.moduleName) /\ last.stage = 3) =>
             /\ last.destPath = <<"f", ".", "j", "s">>
             /\ last.status = "ok" => last.output.kind = "text"

\* A handlebars file was compiled at stage 3.
Stage3Handlebars ==
    /\ IsCall /\ last.op = "build" /\ last.stage = 3
    /\ last.moduleName = NameHandlebars /\ last.status = "ok"

\* The kept call and the most recent one are the same call of compile or of
\* applyTransforms on the same core, and both returned.
SameCallTwice ==
    /\ IsCall /\ pinned.core = last.core /\ pinned.op = last.op
    /\ last.op \in {"compile", "applyTransforms"}
    /\ pinned.moduleName = last.moduleName
    /\ pinned.contents = last.contents
    /\ pinned.status = "ok" /\ last.status = "ok"

\* C10: the same call of compile or applyTransforms on one core returns the
\* same output each time.
SameCallSameOutput == SameCallTwice => pinned.output = last.output

\* The first of the two calls ran the setup, after an earlier attempt had
\* failed, and the second came later.
RepeatedAfterSetup ==
    /\ SameCallTwice /\ pinned.setupRan /\ ~last.setupRan
    /\ last.op = "applyTransforms" /\ attempts[last.core] = 2

\* The file's own key, as the underlying filter computes it.
FileOwnKey(obs) == superCacheKeyProcessString(obs.contents, obs.moduleName)

\* C11: the per-file key is the stage number, "-", the core's cacheKey and
\* the filter's own key of the file, in this order; two per-file keys are
\* equal exactly when the stages, the cores' cacheKeys and the files' own
\* keys are equal.
PerFileKeyComposition ==
    TwoBuilds =>
        /\ last.key = <<Lit(NumberToString(last.stage)), Lit("-"),
                        [hex |-> memo[last.core].cacheKey],
                        [hex |-> FileOwnKey(last)]>>
        /\ (pinned.key = last.key)
             <=> /\ pinned.stage = last.stage
                 /\ memo[pinned.core].cacheKey = memo[last.core].cacheKey
                 /\ FileOwnKey(pinned) = FileOwnKey(last)

\* One core computed the same file at stage 1 and then at stage 3, under
\* different keys.
StageOneThenThree ==
    /\ TwoBuilds /\ pinned.core = last.core
    /\ pinned.stage = 1 /\ last.stage = 3
    /\ pinned.contents = last.contents
    /\ pinned.key # last.key

\* The most recent call ran a setup that completed.
SetupCompleted == IsCall /\ last.setupRan /\ memo[last.core].ready

\* The plugins a completed setup of core c registers, in order.
ExpectedRegistrations(c) ==
    (IF params[c].plugins = Undefined THEN <<>> ELSE params[c].plugins)
        \o (IF params[c].resolver THEN <<ResolverPlugin>> ELSE <<>>)

\* C12: a setup that completes has registered the host AST plugins in list
\* order and then, with a resolver, the one resolver plugin; the user-plugin
\* count then equals the number of host plugins plus one for the resolver,
\* and equals the number of registerPlugin calls made.
RegisteredInOrderAndCounted ==
    SetupCompleted =>
        /\ last.registered = ExpectedRegistrations(last.core)
        /\ last.upc = UserPlugins(last.core)
        /\ last.upc = Len(last.registered)

\* C18: on a core whose setup has completed, the user-plugin count is the
\* number of user plugins registered on the compiler the core uses, also
\* after earlier setup attempts failed, and applyTransforms then hands no
\* built-in plugin to the preprocessor.
CountMatchesRegistry ==
    \A c \in Cores :
        memo[c].ready =>
            /\ userPluginsCount[c] = Len(memo[c].syntax.userPlugins)
            /\ (last.core = c /\ last.op = "applyTransforms"
                   /\ last.status = "ok")
                 => last.handedAst = memo[c].syntax.userPlugins

\* The keys the configuration of core c names for the feature table and for
\* the environment table.
NamedFeatures(c) ==
    IF params[c].EmberENV.given /\ params[c].EmberENV.hasFEATURES
    THEN DOMAIN params[c].EmberENV.FEATURES ELSE {}
NamedEnv(c) ==
    IF params[c].EmberENV.given THEN DOMAIN params[c].EmberENV.other ELSE {}

\* C14: after initializeEmberENV the feature table holds every entry of the
\* configuration's FEATURES map and the environment table every other
\* top-level key; FEATURES itself is no key of the environment table, the
\* entries the configuration does not name are as the bundle left them, and
\* without a configuration both tables are as the bundle left them.
EnvironmentCopied ==
    \A c \in Cores :
        memo[c].ready =>
            /\ DOMAIN memo[c].syntax.FEATURES
                 = DOMAIN DefaultFEATURES \cup NamedFeatures(c)
            /\ \A k \in NamedFeatures(c) :
                 memo[c].syntax.FEATURES[k] = params[c].EmberENV.FEATURES[k]
            /\ \A k \in DOMAIN DefaultFEATURES \ NamedFeatures(c) :
                 memo[c].syntax.FEATURES[k] = DefaultFEATURES[k]
            /\ DOMAIN memo[c].syntax.ENV = DOMAIN DefaultENV \cup NamedEnv(c)
            /\ \A k \in NamedEnv(c) :
                 memo[c].syntax.ENV[k] = params[c].EmberENV.other[k]
            /\ \A k \in DOMAIN DefaultENV \ NamedEnv(c) :
                 memo[c].syntax.ENV[k] = DefaultENV[k]
            /\ "FEATURES" \notin DOMAIN memo[c].syntax.ENV
            /\ ~params[c].EmberENV.given
                 => /\ memo[c].syntax.FEATURES = DefaultFEATURES
                    /\ memo[c].syntax.ENV = DefaultENV

\* A setup initialized the compiler from a configuration with a FEATURES map
\* and another top-level key.
FullConfigurationCopied ==
    /\ SetupCompleted /\ last.initCalls = 1
    /\ LastParams.EmberENV = EnvFull
    /\ DOMAIN memo[last.core].syntax.FEATURES = {"f0", "f1"}
    /\ DOMAIN memo[last.core].syntax.ENV = {"e0", "e1"}

\* What the foreign entry point of a call returned: the result of
\* syntax.precompile or of syntax.preprocess, which records the feature and
\* environment tables the entry point read.
ForeignResult(output) ==
    CASE output.kind = "precompiled" -> output.compiled
      [] output.kind = "text" -> output.tokens[Len(output.tokens) - 1].payload
      [] output.kind = "printed" -> output.text.printed
      [] output.kind = "ast" -> output.ast

\* The tables of a compiler of core c once the configuration is applied.
ExpectedFEATURES(c) ==
    [k \in DOMAIN DefaultFEATURES \cup NamedFeatures(c) |->
        IF k \in NamedFeatures(c) THEN params[c].EmberENV.FEATURES[k]
        ELSE DefaultFEATURES[k]]
ExpectedENV(c) ==
    [k \in DOMAIN DefaultENV \cup NamedEnv(c) |->
        IF k \in NamedEnv(c) THEN params[c].EmberENV.other[k]
        ELSE DefaultENV[k]]

UsesCompiler(op) ==
    op \in {"precompile", "compile", "applyTransforms", "parse", "build"}

\* C13: whichever operation comes first, the preprocess or precompile entry
\* point of a core's compiler reads tables the configuration has already
\* been applied to; environment initialization runs in the call that sets
\* the core up and in no later call, and the tables of the compiler are not
\* written again.
InitializedBeforeUse ==
    [][\A c \in Cores :
         /\ (last'.core = c /\ last'.status = "ok" /\ UsesCompiler(last'.op))
              => /\ memo'[c].ready
                 /\ last'.initCalls = (IF memo[c].ready THEN 0 ELSE 1)
                 /\ ForeignResult(last'.output).FEATURES = ExpectedFEATURES(c)
                 /\ ForeignResult(last'.output).ENV = ExpectedENV(c)
         /\ memo[c].ready
              => /\ memo'[c].syntax.FEATURES = memo[c].syntax.FEATURES
                 /\ memo'[c].syntax.ENV = memo[c].syntax.ENV
                 /\ last'.core = c => last'.initCalls = 0]_vars

\* precompile was the first call on its core, and the entry point read the
\* feature the configuration switches off.
InitializedThenPrecompiled ==
    /\ IsCall /\ last.op = "precompile" /\ last.status = "ok"
    /\ last.setupRan /\ attempts[last.core] = 1
    /\ LastParams.EmberENV = EnvOnlyFeatures
    /\ ForeignResult(last.output).FEATURES["f0"] = "off"

\* The bundle has the full required shape: it runs to its end, one object
\* it constructs has the syntax printer and the compile-options module, and
\* its exports have precompile and _Ember.
FullShape(prog) ==
    /\ prog.parses /\ ~prog.throws
    /\ \E i \in 1..Len(prog.creates) :
          prog.creates[i].gs = "print" /\ prog.creates[i].co
    /\ prog.precompile /\ prog.ember

\* C15: a setup over a bundle that lacks part of the required shape ends
\* without an extracted compiler: none is returned to the call and none is
\* kept by the core.
ShapeRejected ==
    (/\ IsCall /\ last.setupRan
     /\ fs[LastParams.compilerPath] # Missing
     /\ ~FullShape(BundleProgram(Utf8Decode(fs[LastParams.compilerPath]))))
        => /\ last.syntaxId = 0
           /\ ~memo[last.core].ready

\* C16: the compiler of every core that is set up is an instance of its own:
\* its plugin registry holds the plugins of this core only, its tables hold
\* the configuration of this core only, and it is no instance another core
\* uses, whatever the other core has done in between.
OwnCompilerPerCore ==
    \A c \in Cores :
        memo[c].ready =>
            /\ memo[c].syntax.userPlugins = ExpectedRegistrations(c)
            /\ memo[c].syntax.FEATURES = ExpectedFEATURES(c)
            /\ memo[c].syntax.ENV = ExpectedENV(c)
            /\ \A d \in Cores \ {c} :
                 memo[d].ready => memo[d].syntax.id # memo[c].syntax.id

\* Two cores over the same bundle path; the second registered a plugin and
\* applied a configuration, and then the first ran applyTransforms.
FirstCoreAfterSecondSetup ==
    /\ BothReady
    /\ params["c1"].compilerPath = params["c2"].compilerPath
    /\ params["c2"].plugins = <<"u1">>
    /\ memo["c1"].syntax.id < memo["c2"].syntax.id
    /\ last.core = "c1" /\ last.op = "applyTransforms"
    /\ last.status = "ok" /\ ~last.setupRan
    /\ last.handedAst = <<>>

\* The files of a tree that fail the regular expression.
FailingEntries(tree, re) ==
    {i \in tree : ~TreeEntries[i].directory /\ ~Test(re, TreeEntries[i].path)}

\* A call of foundBadPaths got exactly the failing paths of the tree.
ExactlyFailing(report) ==
    /\ Len(report.badPaths)
         = Cardinality(FailingEntries(report.tree, snitch.allowedPaths))
    /\ {report.badPaths[k] : k \in 1..Len(report.badPaths)}
         = {TreeEntries[i].path :
               i \in FailingEntries(report.tree, snitch.allowedPaths)}

\* C17 as stated: the tree is scanned on the first build only, foundBadPaths
\* is called at most once in total, in the first build, with exactly the
\* failing paths, and every build runs the funnel build.
CheckedOnFirstBuildOnly ==
    /\ Len(snitch.reports) <= 1
    /\ \A k \in 1..Len(snitch.reports) :
          snitch.reports[k].build = 1 /\ ExactlyFailing(snitch.reports[k])
    /\ \A k \in 1..Len(snitch.scanned) : snitch.scanned[k] = 1
    /\ snitch.funnelBuilds = snitch.builds

\* C17, amended: the tree is scanned at the first build and then again at
\* each build that follows a build whose check ended in an exception of the
\* callback, and at no other build; foundBadPaths is called at most once per
\* build, only in a build that scans a tree with a failing file path, with
\* exactly the failing paths; once a check has completed no later build
\* scans or reports; every build runs the funnel build except those the
\* callback ended.
CheckedUntilCompleted ==
    /\ \A k \in 1..Len(snitch.scanned) : snitch.scanned[k] = k
    /\ \A k \in 2..Len(snitch.scanned) :
          \E j \in 1..Len(snitch.reports) :
              snitch.reports[j].build = k - 1 /\ snitch.reports[j].threw
    /\ \A k \in 1..Len(snitch.reports) :
          /\ snitch.reports[k].build \in 1..Len(snitch.scanned)
          /\ FailingEntries(snitch.reports[k].tree, snitch.allowedPaths) # {}
          /\ ExactlyFailing(snitch.reports[k])
          /\ \A l \in 1..Len(snitch.reports) :
                k < l => /\ snitch.reports[k].build < snitch.reports[l].build
                         /\ snitch.reports[k].threw
    /\ snitch.mustCheck => Len(snitch.scanned) = snitch.builds
    /\ ~snitch.mustCheck =>
          /\ Len(snitch.scanned) >= 1
          /\ \A j \in 1..Len(snitch.reports) :
                snitch.reports[j].build = Len(snitch.scanned)
                    => ~snitch.reports[j].threw
    /\ snitch.funnelBuilds
         = snitch.builds
             - Cardinality({k \in 1..Len(snitch.reports) :
                               snitch.reports[k].threw})

\* The callback ended the first build, the second build checked a tree
\* without failing paths, and the third build met a tree with failing paths
\* and did not scan it.
LaterBuildNotScanned ==
    /\ snitch.builds = 3 /\ snitch.scanned = <<1, 2>>
    /\ Len(snitch.reports) = 1
    /\ snitch.reports[1].build = 1 /\ snitch.reports[1].threw
    /\ FailingEntries(snitch.built, snitch.allowedPaths) # {}
    /\ snitch.funnelBuilds = 2

====
